---- MODULE Spec2Model ----
(***************************************************************************)
(* Model of the schema walker (getFilterable, getSortable, getQueryable,   *)
(* getPath), the schema annotator (extendZodType) and the filter payload   *)
(* validator (validateOperatorInput, validateOptions) of smart-api-common. *)
(*                                                                         *)
(* Representation                                                          *)
(*  - An object schema has an identity (a name of ObjIds); `shapes` maps   *)
(*    each identity to its shape, the ordered list of [key, value]         *)
(*    entries that Object.entries(schema.shape) yields.                    *)
(*  - A child value is a record with a `kind`: "leaf", "object" (a         *)
(*    reference to an object schema), "array" (with its element `type`),   *)
(*    "lazy" (with what its getter returns, or that it throws) or "undef". *)
(*    `ext` says whether the node went through extendZodType (and so has   *)
(*    the methods isFilterable, ..., path); `desc` is its description      *)
(*    record, a function from annotation names to values.                  *)
(*  - A dotted string "a.b.c" is the sequence <<"a","b","c">> of its       *)
(*    segments (no key or alias of the model contains a dot).              *)
(*  - A capability tree (a nested JS object of `true` leaves) is the set   *)
(*    of its entries [path, val]: one entry per key at every nesting       *)
(*    level, val = "true" for a leaf and "map" for a nested object, so     *)
(*    {a: {}} is {[path |-> <<"a">>, val |-> "map"]}.                      *)
(*  - A path index (JS object with string values) is the sequence of its   *)
(*    [k, v] entries in insertion order.                                   *)
(*  - A call's outcome is a record: raise = "none" and the returned value, *)
(*    or raise = the name of the error that escapes the call.              *)
(***************************************************************************)
EXTENDS Integers, Sequences, FiniteSets, TLC

VARIABLES
  shapes,     \* the object schemas: identity -> shape
  op,         \* the last exported function called ("none" before any call)
  result,     \* the outcome of that call
  clientFilter, \* validateOptions' payload: its [key, value] entries in order
  filterMap,  \* validateOptions' filter map
  operator,   \* validateOperatorInput's operator name
  operand,    \* validateOperatorInput's value
  nodes,      \* the annotated nodes built so far, in order of creation
  calls       \* calls[i] is the annotation call that built nodes[i + 1]

vars == <<shapes, op, result, clientFilter, filterMap, operator, operand,
                 nodes, calls>>

\* Depth of nested calls after which the engine raises RangeError
\* ("Maximum call stack size exceeded").
StackLimit == 5

(***************************************************************************)
(* Annotations (src/zod/extensions)                                        *)
(***************************************************************************)
META_KEYS == [FILTERABLE |-> "filterable", SORTABLE |-> "sortable",
              QUERYABLE |-> "queryable", path |-> "path"]

NoDesc == [k \in {} |-> TRUE]

\* !!this.description?.[key]: booleans are themselves, an array (a path) is
\* truthy even when empty, an absent key is undefined.
Truthy(desc, key) ==
  /\ key \in DOMAIN desc
  /\ IF key = META_KEYS.path THEN TRUE ELSE desc[key] = TRUE

isFilterable(v) == Truthy(v.desc, META_KEYS.FILTERABLE)

isSortable(v) == Truthy(v.desc, META_KEYS.SORTABLE)

isQueryable(v) == Truthy(v.desc, META_KEYS.QUERYABLE)

isPath(v) == Truthy(v.desc, META_KEYS.path)

(***************************************************************************)
(* Capability trees                                                        *)
(***************************************************************************)
EmptyTree == {}

\* Object.keys(tree).length
NumKeys(tree) == Cardinality({e \in tree : Len(e.path) = 1})

\* tree[key] = <anything>: whatever was stored under key is dropped first
Without(tree, key) == {e \in tree : e.path[1] # key}

\* tree[key] = nested
SetSubtree(tree, key, nested) ==
  Without(tree, key)
    \cup {[path |-> <<key>>, val |-> "map"]}
    \cup {[path |-> <<key>> \o e.path, val |-> e.val] : e \in nested}

\* setNestedKey(obj, path, true); every call site passes a one-key path, for
\* which the loop body never runs and the call is obj[path[0]] = true.
setNestedKey(obj, path) ==
  Without(obj, path[1]) \cup {[path |-> <<path[1]>>, val |-> "true"]}

(***************************************************************************)
(* Outcomes                                                                *)
(***************************************************************************)
Ret(value, visited) == [raise |-> "none", value |-> value, visited |-> visited]

Raise(err, visited) == [raise |-> err, value |-> EmptyTree, visited |-> visited]

Shape(schema) == shapes[schema]

(***************************************************************************)
(* getFilterable                                                           *)
(***************************************************************************)
RECURSIVE getFilterable(_, _, _)
RECURSIVE FilterableLoop(_, _, _, _, _)

\* if (!visited.has(s)) { nested = getFilterable(s, visited);
\*                        if (Object.keys(nested).length) filterable[key] = nested }
FilterableNested(key, s, filterable, visited, depth) ==
  IF s \in visited THEN Ret(filterable, visited)
  ELSE LET nested == getFilterable(s, visited, depth + 1) IN
       IF nested.raise # "none" THEN Raise(nested.raise, nested.visited)
       ELSE IF NumKeys(nested.value) > 0
            THEN Ret(SetSubtree(filterable, key, nested.value), nested.visited)
            ELSE Ret(filterable, nested.visited)

\* the tail of the loop body, after the ZodLazy block
FilterableRest(key, value, filterable, visited, depth) ==
  IF value.kind = "object"
  THEN FilterableNested(key, value.ref, filterable, visited, depth)
  ELSE IF value.kind = "array" /\ value.type.kind = "object"
  THEN FilterableNested(key, value.type.ref, filterable, visited, depth)
  ELSE IF value.ext /\ isFilterable(value)
  THEN Ret(setNestedKey(filterable, <<key>>), visited)
  ELSE Ret(filterable, visited)

\* try { ... } catch (e) { continue }: whatever is raised inside is swallowed
FilterableCaught(r, filterable) ==
  IF r.raise # "none" THEN Ret(filterable, r.visited) ELSE r

\* one iteration of the loop over Object.entries(schema.shape)
FilterableEntry(key, value, filterable, visited, depth) ==
  IF value.kind = "undef" THEN Ret(filterable, visited)
  ELSE IF value.kind = "lazy"
  THEN IF value.getter.kind = "throws" THEN Ret(filterable, visited)
       ELSE IF value.getter.kind = "object"
       THEN FilterableCaught(
              FilterableNested(key, value.getter.ref, filterable, visited, depth),
              filterable)
       ELSE IF value.getter.kind = "array" /\ value.getter.type.kind = "object"
       THEN FilterableCaught(
              FilterableNested(key, value.getter.type.ref, filterable, visited, depth),
              filterable)
       ELSE FilterableRest(key, value, filterable, visited, depth)
  ELSE FilterableRest(key, value, filterable, visited, depth)

FilterableLoop(schema, i, filterable, visited, depth) ==
  IF i > Len(Shape(schema)) THEN Ret(filterable, visited)
  ELSE LET e == Shape(schema)[i]
           r == FilterableEntry(e.key, e.value, filterable, visited, depth)
       IN IF r.raise # "none" THEN r
          ELSE FilterableLoop(schema, i + 1, r.value, r.visited, depth)

getFilterable(schema, visited, depth) ==
  IF depth > StackLimit THEN Raise("RangeError", visited)
  ELSE IF schema \in visited THEN Ret(EmptyTree, visited)
  ELSE FilterableLoop(schema, 1, EmptyTree, visited \cup {schema}, depth)

(***************************************************************************)
(* getSortable                                                             *)
(***************************************************************************)
RECURSIVE getSortable(_, _)
RECURSIVE SortableLoop(_, _, _, _)

\* one iteration of the loop over Object.entries(schema.shape)
SortableEntry(key, value, sortable, depth) ==
  IF value.kind = "object"
  THEN LET nested == getSortable(value.ref, depth + 1) IN
       IF nested.raise # "none" THEN nested
       ELSE IF NumKeys(nested.value) > 0
            THEN Ret(SetSubtree(sortable, key, nested.value), {})
            ELSE Ret(sortable, {})
  \* 'isSortable' in undefined
  ELSE IF value.kind = "undef" THEN Raise("TypeError", {})
  ELSE IF value.ext /\ isSortable(value)
  THEN Ret(setNestedKey(sortable, <<key>>), {})
  ELSE Ret(sortable, {})

SortableLoop(schema, i, sortable, depth) ==
  IF i > Len(Shape(schema)) THEN Ret(sortable, {})
  ELSE LET e == Shape(schema)[i]
           r == SortableEntry(e.key, e.value, sortable, depth)
       IN IF r.raise # "none" THEN r
          ELSE SortableLoop(schema, i + 1, r.value, depth)

getSortable(schema, depth) ==
  IF depth > StackLimit THEN Raise("RangeError", {})
  ELSE SortableLoop(schema, 1, EmptyTree, depth)

(***************************************************************************)
(* getQueryable                                                            *)
(***************************************************************************)
RECURSIVE getQueryable(_, _)
RECURSIVE QueryableLoop(_, _, _, _)
RECURSIVE QueryableAliases(_, _, _)

\* for (const p of path) setNestedKey(queryable, [p], true)
QueryableAliases(queryable, path, i) ==
  IF i > Len(path) THEN queryable
  ELSE QueryableAliases(setNestedKey(queryable, <<path[i]>>), path, i + 1)

\* QueryableLeaf without the alias branch
QueryableLeafNoAlias(key, value, queryable) == setNestedKey(queryable, <<key>>)

\* the body of `if (... value.isQueryable())`
QueryableLeaf(key, value, queryable) ==
  IF value.ext
  THEN IF META_KEYS.path \in DOMAIN value.desc
       THEN QueryableAliases(queryable, value.desc[META_KEYS.path], 1)
       ELSE setNestedKey(queryable, <<key>>)
  ELSE setNestedKey(queryable, <<key>>)

\* QueryableEntry descending into arrays of objects, as getFilterable does
QueryableEntryIntoArrays(key, value, queryable, depth) ==
  IF value.kind = "object" \/ (value.kind = "array" /\ value.type.kind = "object")
  THEN LET nested == getQueryable(IF value.kind = "object" THEN value.ref
                                  ELSE value.type.ref, depth + 1) IN
       IF nested.raise # "none" THEN nested
       ELSE IF NumKeys(nested.value) > 0
            THEN Ret(SetSubtree(queryable, key, nested.value), {})
            ELSE Ret(queryable, {})
  ELSE IF value.kind = "undef" THEN Raise("TypeError", {})
  ELSE IF value.ext /\ isQueryable(value)
  THEN Ret(QueryableLeaf(key, value, queryable), {})
  ELSE Ret(queryable, {})

\* QueryableEntry without `if (Object.keys(nested).length)`
QueryableEntryUnpruned(key, value, queryable, depth) ==
  IF value.kind = "object"
  THEN LET nested == getQueryable(value.ref, depth + 1) IN
       IF nested.raise # "none" THEN nested
       ELSE Ret(SetSubtree(queryable, key, nested.value), {})
  ELSE IF value.kind = "undef" THEN Raise("TypeError", {})
  ELSE IF value.ext /\ isQueryable(value)
  THEN Ret(QueryableLeaf(key, value, queryable), {})
  ELSE Ret(queryable, {})

\* one iteration of the loop over Object.entries(schema.shape)
QueryableEntry(key, value, queryable, depth) ==
  IF value.kind = "object"
  THEN LET nested == getQueryable(value.ref, depth + 1) IN
       IF nested.raise # "none" THEN nested
       ELSE IF NumKeys(nested.value) > 0
            THEN Ret(SetSubtree(queryable, key, nested.value), {})
            ELSE Ret(queryable, {})
  \* 'isQueryable' in undefined
  ELSE IF value.kind = "undef" THEN Raise("TypeError", {})
  ELSE IF value.ext /\ isQueryable(value)
  THEN Ret(QueryableLeaf(key, value, queryable), {})
  ELSE Ret(queryable, {})

QueryableLoop(schema, i, queryable, depth) ==
  IF i > Len(Shape(schema)) THEN Ret(queryable, {})
  ELSE LET e == Shape(schema)[i]
           r == QueryableEntry(e.key, e.value, queryable, depth)
       IN IF r.raise # "none" THEN r
          ELSE QueryableLoop(schema, i + 1, r.value, depth)

getQueryable(schema, depth) ==
  IF depth > StackLimit THEN Raise("RangeError", {})
  ELSE QueryableLoop(schema, 1, EmptyTree, depth)

(***************************************************************************)
(* getPath                                                                 *)
(***************************************************************************)
NoPaths == << >>

\* paths[k] = v on a JS object: an existing key keeps its position
PutPath(paths, k, v) ==
  IF \E i \in 1..Len(paths) : paths[i].k = k
  THEN [i \in 1..Len(paths) |->
          IF paths[i].k = k THEN [k |-> k, v |-> v] ELSE paths[i]]
  ELSE Append(paths, [k |-> k, v |-> v])

\* `${key}.${nestedKey.split('.').pop()}`
ShortKey(key, nestedKey) ==
  <<key, IF nestedKey = << >> THEN "" ELSE nestedKey[Len(nestedKey)]>>

RECURSIVE getPath(_, _, _, _)
RECURSIVE PathLoop(_, _, _, _, _, _)
RECURSIVE PathMerge(_, _, _, _, _, _)

\* Object.entries(nested).forEach(([nestedKey, nestedPath]) => { ... }); the
\* four call sites differ in which of the three assignments they make:
\*   own:   paths[nestedKey] = nestedPath       (object, array)
\*          paths[`${key}.${last}`] = nestedPath (all)
\*   self:  paths[nestedPath] = nestedPath      (array, lazy array)
PathMerge(paths, key, nested, i, own, self) ==
  IF i > Len(nested) THEN paths
  ELSE LET n  == nested[i]
           p1 == IF own THEN PutPath(paths, n.k, n.v) ELSE paths
           p2 == PutPath(p1, ShortKey(key, n.k), n.v)
           p3 == IF self THEN PutPath(p2, n.v, n.v) ELSE p2
       IN PathMerge(p3, key, nested, i + 1, own, self)

\* if (!visited.has(s)) { nested = getPath(s, fullKeyPath, visited); merge }
PathNested(key, s, fullKeyPath, paths, visited, depth, own, self) ==
  IF s \in visited THEN Ret(paths, visited)
  ELSE LET nested == getPath(s, fullKeyPath, visited, depth + 1) IN
       IF nested.raise # "none" THEN Raise(nested.raise, nested.visited)
       ELSE Ret(PathMerge(paths, key, nested.value, 1, own, self), nested.visited)

\* the tail of the loop body, after the ZodLazy block
PathRest(key, value, parentKey, paths, visited, depth) ==
  LET fullKeyPath == Append(parentKey, key) IN
  IF value.kind = "object"
  THEN PathNested(key, value.ref, fullKeyPath, paths, visited, depth, TRUE, FALSE)
  ELSE IF value.kind = "array" /\ value.type.kind = "object"
  THEN PathNested(key, value.type.ref, fullKeyPath, paths, visited, depth, TRUE, TRUE)
  ELSE IF value.ext /\ isPath(value)
  THEN Ret(PutPath(paths, fullKeyPath, parentKey \o value.desc[META_KEYS.path]),
           visited)
  ELSE Ret(PutPath(paths, <<key>>, fullKeyPath), visited)

\* try { ... } catch (e) { continue }
PathCaught(r, paths) ==
  IF r.raise # "none" THEN Ret(paths, r.visited) ELSE r

\* one iteration of the loop over Object.entries(schema.shape)
PathEntry(key, value, parentKey, paths, visited, depth) ==
  LET fullKeyPath == Append(parentKey, key) IN
  IF value.kind = "undef" THEN Ret(paths, visited)
  ELSE IF value.kind = "lazy"
  THEN IF value.getter.kind = "throws" THEN Ret(paths, visited)
       ELSE IF value.getter.kind = "object"
       THEN PathCaught(
              PathNested(key, value.getter.ref, fullKeyPath, paths, visited, depth,
                         FALSE, FALSE),
              paths)
       ELSE IF value.getter.kind = "array" /\ value.getter.type.kind = "object"
       THEN PathCaught(
              PathNested(key, value.getter.type.ref, fullKeyPath, paths, visited,
                         depth, FALSE, TRUE),
              paths)
       ELSE PathRest(key, value, parentKey, paths, visited, depth)
  ELSE PathRest(key, value, parentKey, paths, visited, depth)

PathLoop(schema, i, parentKey, paths, visited, depth) ==
  IF i > Len(Shape(schema)) THEN Ret(paths, visited)
  ELSE LET e == Shape(schema)[i]
           r == PathEntry(e.key, e.value, parentKey, paths, visited, depth)
       IN IF r.raise # "none" THEN r
          ELSE PathLoop(schema, i + 1, parentKey, r.value, r.visited, depth)

getPath(schema, parentKey, visited, depth) ==
  IF depth > StackLimit THEN [Raise("RangeError", visited) EXCEPT !.value = NoPaths]
  ELSE IF schema \in visited THEN Ret(NoPaths, visited)
  ELSE PathLoop(schema, 1, parentKey, NoPaths, visited \cup {schema}, depth)

(***************************************************************************)
(* Schemas the walker is applied to                                        *)
(***************************************************************************)
ObjIds == {"A", "B", "C"}

Root == "A"

\* z.string() and the like of the extended z, then a chain of annotations
Leaf(desc) == [kind |-> "leaf", ext |-> TRUE, desc |-> desc]

\* a node of plain zod (z.any(), z.string().optional(), ...): no methods
RawLeaf == [kind |-> "leaf", ext |-> FALSE, desc |-> NoDesc]

\* a reference to the object schema o (z.object / z.lateObject)
Obj(o) == [kind |-> "object", ref |-> o, ext |-> TRUE, desc |-> NoDesc]

\* z.array(t)
Arr(t) == [kind |-> "array", type |-> t, ext |-> TRUE, desc |-> NoDesc]

\* z.lazy(() => g); z.lazy is plain zod's
Lazy(g) == [kind |-> "lazy", getter |-> g, ext |-> FALSE, desc |-> NoDesc]

\* a getter that throws
ThrowingGetter == [kind |-> "throws"]

\* a shape entry whose value is undefined
Undef == [kind |-> "undef"]

Caps(f, s, q) ==
  (META_KEYS.FILTERABLE :> f) @@ (META_KEYS.SORTABLE :> s) @@ (META_KEYS.QUERYABLE :> q)

All == Caps(TRUE, TRUE, TRUE)

Alias(path) == (META_KEYS.path :> path)

\* a node after a chain of annotation calls that left it with desc, such as
\* z.array(z.string()).filterable().sortable().queryable()
Annotated(v, desc) == [v EXCEPT !.desc = desc]

LeafValues ==
  { RawLeaf, Leaf(NoDesc), Leaf(All), Leaf(Caps(TRUE, FALSE, FALSE)),
    Leaf(Caps(FALSE, TRUE, TRUE)),
    Leaf(All @@ Alias(<<"email">>)), Leaf(All @@ Alias(<<"profile">>)),
    Leaf(All @@ Alias(<<"name", "email">>)), Leaf(All @@ Alias(<< >>)),
    Leaf(Alias(<<"email">>)),
    Undef, Lazy(ThrowingGetter), Lazy(Leaf(All)), Arr(Leaf(All)),
    Annotated(Arr(Leaf(NoDesc)), All) }

CompositeValues ==
  UNION { {Obj(o), Arr(Obj(o)), Lazy(Obj(o)), Lazy(Arr(Obj(o)))} : o \in ObjIds }

Entry(key, value) == [key |-> key, value |-> value]

\* A = {name, profile}, B = {name, company}, C = {name}
SchemaInit ==
  \E a1 \in LeafValues \cup {Obj("C")},
     a2 \in CompositeValues \cup {Leaf(All), Leaf(All @@ Alias(<<"name">>))},
     b1 \in LeafValues, b2 \in CompositeValues \cup {Leaf(All)},
     c1 \in {Leaf(NoDesc), Leaf(All), Leaf(All @@ Alias(<<"email">>)),
             Obj("A"), Lazy(Obj("B"))} :
    shapes = [o \in ObjIds |->
                CASE o = "A" -> <<Entry("name", a1), Entry("profile", a2)>>
                  [] o = "B" -> <<Entry("name", b1), Entry("company", b2)>>
                  [] o = "C" -> <<Entry("name", c1)>>]

NoResult == [raise |-> "none", value |-> EmptyTree, visited |-> {}]

InitWalk ==
  /\ SchemaInit
  /\ nodes = << >>
  /\ calls = << >>
  /\ op = "none"
  /\ result = NoResult
  /\ clientFilter = [kind |-> "object", entries |-> << >>]
  /\ filterMap = [kind |-> "object", entries |-> << >>]
  /\ operator = "eq"
  /\ operand = [kind |-> "null"]

(***************************************************************************)
(* Calls of the walker's exported functions on the root schema             *)
(***************************************************************************)
CallGetFilterable ==
  /\ op' = "getFilterable"
  /\ result' = getFilterable(Root, {}, 1)
  /\ UNCHANGED <<shapes, clientFilter, filterMap, operator, operand,
                 nodes, calls>>

CallGetSortable ==
  /\ op' = "getSortable"
  /\ result' = getSortable(Root, 1)
  /\ UNCHANGED <<shapes, clientFilter, filterMap, operator, operand,
                 nodes, calls>>

CallGetQueryable ==
  /\ op' = "getQueryable"
  /\ result' = getQueryable(Root, 1)
  /\ UNCHANGED <<shapes, clientFilter, filterMap, operator, operand,
                 nodes, calls>>

CallGetPath ==
  /\ op' = "getPath"
  /\ result' = getPath(Root, << >>, {}, 1)
  /\ UNCHANGED <<shapes, clientFilter, filterMap, operator, operand,
                 nodes, calls>>

NextWalk == CallGetFilterable \/ CallGetSortable \/ CallGetQueryable \/ CallGetPath

SpecWalk == InitWalk /\ [][NextWalk]_vars

(***************************************************************************)
(* JS values of filter payloads                                            *)
(*   [kind |-> "null"], "undefined", "number", "boolean", "date",          *)
(*   [kind |-> "string", text |-> <<characters>>],                         *)
(*   [kind |-> "array", items |-> <<values>>],                             *)
(*   [kind |-> "object", entries |-> <<[key, value], ...>>]                *)
(***************************************************************************)
Null == [kind |-> "null"]

Undefined == [kind |-> "undefined"]

Num == [kind |-> "number"]

Bool == [kind |-> "boolean"]

Date == [kind |-> "date"]

Str(text) == [kind |-> "string", text |-> text]

Array(items) == [kind |-> "array", items |-> items]

Object(entries) == [kind |-> "object", entries |-> entries]

\* Object.keys(value).length; Object.keys(null) and Object.keys(undefined)
\* throw a TypeError (reported as -1)
NumOwnKeys(value) ==
  CASE value.kind \in {"null", "undefined"} -> -1
    [] value.kind = "string" -> Len(value.text)
    [] value.kind = "array" -> Len(value.items)
    [] value.kind = "object" -> Len(value.entries)
    [] OTHER -> 0

(***************************************************************************)
(* sequelizeOperatorValidators: the zod schemas, and zod's parse on them   *)
(***************************************************************************)
ZUnion(kinds) == [z |-> "union", kinds |-> kinds]

ZArrayAny == [z |-> "array", kinds |-> {}]

ZTuple2 == [z |-> "tuple", kinds |-> {}]

ZString == [z |-> "string", kinds |-> {}]

\* z.string().refine((val) => !val.includes('%'))
ZStringNoPercent == [z |-> "refine", kinds |-> {}]

sequelizeOperatorValidators ==
  [ eq |-> ZUnion({"string", "number", "boolean", "null", "date"}),
    ne |-> ZUnion({"string", "number", "boolean", "null", "date"}),
    gt |-> ZUnion({"number", "date", "string"}),
    gte |-> ZUnion({"number", "date", "string"}),
    lt |-> ZUnion({"number", "date", "string"}),
    lte |-> ZUnion({"number", "date", "string"}),
    in |-> ZArrayAny,
    notIn |-> ZArrayAny,
    like |-> ZStringNoPercent,
    notLike |-> ZStringNoPercent,
    iLike |-> ZStringNoPercent,
    notILike |-> ZStringNoPercent,
    between |-> ZTuple2,
    notBetween |-> ZTuple2,
    is |-> ZUnion({"null", "boolean"}),
    not |-> ZUnion({"string", "number", "boolean", "null"}),
    or |-> ZArrayAny,
    and |-> ZArrayAny,
    startsWith |-> ZString,
    endsWith |-> ZString,
    substring |-> ZString ]

\* val.includes('%')
Includes(text, ch) == \E i \in 1..Len(text) : text[i] = ch

\* Parses with the refinement of the like family dropped
ParsesUnrefined(schema, value) ==
  CASE schema.z = "union" -> value.kind \in schema.kinds
    [] schema.z = "array" -> value.kind = "array"
    [] schema.z = "tuple" -> value.kind = "array" /\ Len(value.items) = 2
    [] schema.z = "string" -> value.kind = "string"
    [] schema.z = "refine" -> value.kind = "string"

\* schema.parse(value) does not throw
Parses(schema, value) ==
  CASE schema.z = "union" -> value.kind \in schema.kinds
    [] schema.z = "array" -> value.kind = "array"
    [] schema.z = "tuple" -> value.kind = "array" /\ Len(value.items) = 2
    [] schema.z = "string" -> value.kind = "string"
    [] schema.z = "refine" -> value.kind = "string" /\ ~Includes(value.text, "%")

\* Names that a property lookup on the validators object finds on
\* Object.prototype: the lookup yields a function, which is truthy and has no
\* parse method.
InheritedNames == {"constructor", "toString", "hasOwnProperty"}

\* !!sequelizeOperatorValidators[name]
HasValidator(name) ==
  name \in DOMAIN sequelizeOperatorValidators \/ name \in InheritedNames

(***************************************************************************)
(* validateOperatorInput                                                   *)
(***************************************************************************)
Success == [ok |-> TRUE, err |-> "null", key |-> << >>]

\* [null, err] with err the ZodError of the parse
ZodFailure == [ok |-> FALSE, err |-> "ZodError", key |-> << >>]

\* [null, `Invalid key: ${key}`]
InvalidKey(key) == [ok |-> FALSE, err |-> "Invalid key", key |-> key]

Returns(tuple) == [raise |-> "none", value |-> tuple]

Thrown(err) == [raise |-> err, value |-> [ok |-> FALSE, err |-> "null", key |-> << >>]]

validateOperatorInput(name, value) ==
  IF ~HasValidator(name) THEN Thrown("Unsupported operator")
  \* schema.parse is not a function; in the catch block err.errors is
  \* undefined and err.errors.map raises in turn
  ELSE IF name \notin DOMAIN sequelizeOperatorValidators THEN Thrown("TypeError")
  ELSE IF Parses(sequelizeOperatorValidators[name], value) THEN Returns(Success)
  ELSE Returns(ZodFailure)

(***************************************************************************)
(* nestedToDotObject and validateOptions                                   *)
(* Keys are dotted strings, so sequences of segments: 'user.role' is       *)
(* <<"user", "role">> and the operator key 'eq' is <<"eq">>.               *)
(***************************************************************************)
RECURSIVE DotInner(_, _, _, _)
RECURSIVE DotOuter(_, _, _)

\* Object.keys(obj[key]).forEach((nestedKey) => result[`${key}.${nestedKey}`] = ...)
DotInner(res, key, inner, j) ==
  IF j > Len(inner) THEN res
  ELSE DotInner(PutPath(res, key \o inner[j].key, inner[j].value), key, inner, j + 1)

\* Object.keys(obj).forEach((key) => { ... }); a Date is a non-null, non-array
\* object without own keys
DotOuter(res, entries, i) ==
  IF i > Len(entries) THEN res
  ELSE LET e == entries[i] IN
       IF e.value.kind = "object"
       THEN DotOuter(DotInner(res, e.key, e.value.entries, 1), entries, i + 1)
       ELSE IF e.value.kind = "date" THEN DotOuter(res, entries, i + 1)
       ELSE DotOuter(PutPath(res, e.key, e.value), entries, i + 1)

nestedToDotObject(obj) == DotOuter(<< >>, obj.entries, 1)

\* nestedFilterMap.hasOwnProperty(key)
HasOwnProperty(map, key) == \E i \in 1..Len(map) : map[i].k = key

\* !!sequelizeOperatorValidators[key] for a payload key
IsOperatorKey(key) == Len(key) = 1 /\ HasValidator(key[1])

Continue == [raise |-> "continue", value |-> Success]

\* Object.keys(value).forEach((k) => { if (!validators[k]) return [null, ...] }):
\* the callback's return value goes to forEach, which discards it
ForEachKey(value) == Continue

\* one iteration of the loop over Object.entries(clientFilter)
OptionsEntry(key, value, nestedFilterMap) ==
  IF ~HasOwnProperty(nestedFilterMap, key) /\ ~IsOperatorKey(key)
  THEN Returns(InvalidKey(key))
  ELSE IF IsOperatorKey(key)
  THEN LET r == validateOperatorInput(key[1], value) IN
       IF r.raise # "none" THEN r
       ELSE IF r.value.err # "null" THEN Returns(r.value)
       ELSE Continue
  ELSE IF NumOwnKeys(value) < 0 THEN Thrown("TypeError")
  ELSE IF NumOwnKeys(value) > 0 THEN ForEachKey(value)
  ELSE IF ~HasOwnProperty(nestedFilterMap, key) THEN Returns(InvalidKey(key))
  ELSE Continue

RECURSIVE OptionsLoop(_, _, _)

OptionsLoop(entries, i, nestedFilterMap) ==
  IF i > Len(entries) THEN Returns(Success)
  ELSE LET r == OptionsEntry(entries[i].key, entries[i].value, nestedFilterMap) IN
       IF r.raise = "continue" THEN OptionsLoop(entries, i + 1, nestedFilterMap)
       ELSE r

validateOptions(payload, map) ==
  OptionsLoop(payload.entries, 1, nestedToDotObject(map))

(***************************************************************************)
(* Calls of validateOperatorInput                                          *)
(***************************************************************************)
\* longest array among the operands
MaxItems == 3

\* most entries in a filter payload
MaxEntries == 2

Vocabulary == DOMAIN sequelizeOperatorValidators

\* names that are no operator: "contains" is an operator of the client's
\* FilterOperator enum, "foo" is arbitrary
OtherNames == {"contains", "foo"}

Arrays == {Array([i \in 1..n |-> Num]) : n \in 0..MaxItems}

Operands ==
  {Null, Undefined, Num, Bool, Date, Str(<< >>), Str(<<"a", "b">>),
   Str(<<"a", "%">>), Str(<<"%", "a", "b">>), Object(<< >>),
   Object(<<Entry(<<"eq">>, Num)>>)} \cup Arrays

NoShapes == [o \in ObjIds |-> << >>]

InitOperator ==
  /\ operator \in Vocabulary \cup InheritedNames \cup OtherNames
  /\ operand \in Operands
  /\ op = "none"
  /\ result = NoResult
  /\ shapes = NoShapes
  /\ nodes = << >>
  /\ calls = << >>
  /\ clientFilter = Object(<< >>)
  /\ filterMap = Object(<< >>)

CallValidateOperatorInput ==
  /\ op' = "validateOperatorInput"
  /\ result' = validateOperatorInput(operator, operand)
  /\ UNCHANGED <<shapes, clientFilter, filterMap, operator, operand,
                 nodes, calls>>

NextOperator == CallValidateOperatorInput

SpecOperator == InitOperator /\ [][NextOperator]_vars

(***************************************************************************)
(* Calls of validateOptions                                                *)
(***************************************************************************)
PayloadKeys ==
  {<<"name">>, <<"user", "role">>, <<"eq">>, <<"like">>, <<"foo">>,
   <<"constructor">>}

PayloadValues ==
  {Null, Num, Str(<<"a", "b">>), Str(<<"a", "%">>), Array(<<Num>>), Object(<< >>),
   Object(<<Entry(<<"like">>, Str(<<"a", "b">>))>>),
   Object(<<Entry(<<"like">>, Str(<<"a", "%">>))>>),
   Object(<<Entry(<<"foo">>, Str(<<"a", "b">>))>>),
   Object(<<Entry(<<"like">>, Str(<<"a", "b">>)), Entry(<<"foo">>, Num)>>)}

RECURSIVE Payloads(_)

\* the entry lists of at most n entries with distinct keys
Payloads(n) ==
  IF n = 0 THEN {<< >>}
  ELSE LET shorter == Payloads(n - 1) IN
       shorter \cup
       { Append(es, Entry(k, v)) :
           es \in {x \in shorter : Len(x) = n - 1},
           k \in PayloadKeys, v \in PayloadValues }

DistinctKeys(es) == \A i, j \in 1..Len(es) : es[i].key = es[j].key => i = j

FilterMaps ==
  { Object(<< >>),
    Object(<<Entry(<<"name">>, Bool)>>),
    Object(<<Entry(<<"name">>, Bool),
             Entry(<<"user">>, Object(<<Entry(<<"role">>, Bool)>>))>>) }

InitOptions ==
  /\ clientFilter \in {Object(es) : es \in {x \in Payloads(MaxEntries) : DistinctKeys(x)}}
  /\ filterMap \in FilterMaps
  /\ op = "none"
  /\ result = NoResult
  /\ shapes = NoShapes
  /\ nodes = << >>
  /\ calls = << >>
  /\ operator = "eq"
  /\ operand = Null

CallValidateOptions ==
  /\ op' = "validateOptions"
  /\ result' = validateOptions(clientFilter, filterMap)
  /\ UNCHANGED <<shapes, clientFilter, filterMap, operator, operand,
                 nodes, calls>>

NextOptions == CallValidateOptions

SpecOptions == InitOptions /\ [][NextOptions]_vars

(***************************************************************************)
(* The annotator (extendZodType) as a state machine                        *)
(***************************************************************************)
\* Number of nodes up to which annotation calls are explored.
MaxNodes == 4

\* an argument of an annotation call: left out, or given
NoArg == [given |-> FALSE]

Arg(v) == [given |-> TRUE, value |-> v]

\* function (value = d) { ... }: the default stands in for an omitted argument
Default(arg, d) == IF arg.given THEN arg.value ELSE d

\* { [key]: value }: a description that forgets the receiver's
DescribeAlone(description, key, value) == (key :> value)

\* { ...description, [key]: value }
Spread(description, key, value) ==
  [k \in DOMAIN description \cup {key} |->
     IF k = key THEN value ELSE description[k]]

\* extendZodType(this.describe({...})): describe builds a new instance from
\* the receiver's definition with the description replaced
filterable(this, arg) ==
  Annotated(this, Spread(this.desc, META_KEYS.FILTERABLE, Default(arg, TRUE)))

sortable(this, arg) ==
  Annotated(this, Spread(this.desc, META_KEYS.SORTABLE, Default(arg, TRUE)))

queryable(this, arg) ==
  Annotated(this, Spread(this.desc, META_KEYS.QUERYABLE, Default(arg, TRUE)))

path(this, arg) ==
  Annotated(this, Spread(this.desc, META_KEYS.path, Default(arg, << >>)))

BoolArgs == {NoArg, Arg(TRUE), Arg(FALSE)}

PathArgs == {NoArg, Arg(<< >>), Arg(<<"email">>), Arg(<<"user", "name">>)}

\* extendedZ.string(): a node that no annotation call has touched
InitAnnotate ==
  /\ nodes = <<Leaf(NoDesc)>>
  /\ calls = << >>
  /\ op = "none"
  /\ result = NoResult
  /\ shapes = NoShapes
  /\ clientFilter = Object(<< >>)
  /\ filterMap = Object(<< >>)
  /\ operator = "eq"
  /\ operand = Null

CallFilterable ==
  /\ Len(nodes) < MaxNodes
  /\ \E r \in 1..Len(nodes), arg \in BoolArgs :
       /\ nodes' = Append(nodes, filterable(nodes[r], arg))
       /\ calls' = Append(calls, [recv |-> r, key |-> META_KEYS.FILTERABLE, arg |-> arg])
  /\ UNCHANGED <<shapes, op, result, clientFilter, filterMap, operator, operand>>

CallSortable ==
  /\ Len(nodes) < MaxNodes
  /\ \E r \in 1..Len(nodes), arg \in BoolArgs :
       /\ nodes' = Append(nodes, sortable(nodes[r], arg))
       /\ calls' = Append(calls, [recv |-> r, key |-> META_KEYS.SORTABLE, arg |-> arg])
  /\ UNCHANGED <<shapes, op, result, clientFilter, filterMap, operator, operand>>

CallQueryable ==
  /\ Len(nodes) < MaxNodes
  /\ \E r \in 1..Len(nodes), arg \in BoolArgs :
       /\ nodes' = Append(nodes, queryable(nodes[r], arg))
       /\ calls' = Append(calls, [recv |-> r, key |-> META_KEYS.QUERYABLE, arg |-> arg])
  /\ UNCHANGED <<shapes, op, result, clientFilter, filterMap, operator, operand>>

CallPath ==
  /\ Len(nodes) < MaxNodes
  /\ \E r \in 1..Len(nodes), arg \in PathArgs :
       /\ nodes' = Append(nodes, path(nodes[r], arg))
       /\ calls' = Append(calls, [recv |-> r, key |-> META_KEYS.path, arg |-> arg])
  /\ UNCHANGED <<shapes, op, result, clientFilter, filterMap, operator, operand>>

NextAnnotate == CallFilterable \/ CallSortable \/ CallQueryable \/ CallPath

SpecAnnotate == InitAnnotate /\ [][NextAnnotate]_vars

(***************************************************************************)
(* Properties                                                              *)
(***************************************************************************)
TreeOps == {"getFilterable", "getSortable", "getQueryable"}

\* the call returned (nothing was raised out of it)
Returned == op # "none" /\ result.raise = "none"

IsPrefix(p, q) == Len(p) <= Len(q) /\ SubSeq(q, 1, Len(p)) = p

\* no key of the tree, at any depth, holds an empty mapping
Pruned(tree) ==
  \A e \in tree :
    e.val = "map" =>
      \E c \in tree : Len(c.path) = Len(e.path) + 1 /\ IsPrefix(e.path, c.path)

\* C1: the trees returned by getFilterable, getSortable and getQueryable never
\* contain a key whose value is an empty mapping, at any nesting depth.
C1_NoEmptySubtree ==
  (op \in TreeOps /\ Returned) => Pruned(result.value)

\* A returned tree that kept a nested mapping two levels deep and dropped a
\* composite child whose own result was empty (C under B's key company).
C1_Witness ==
  /\ op = "getQueryable" /\ Returned
  /\ shapes["A"][2].value = Obj("B")
  /\ shapes["B"][2].value = Obj("C")
  /\ getQueryable("C", 1).value = EmptyTree
  /\ [path |-> <<"profile">>, val |-> "map"] \in result.value
  /\ \A e \in result.value : e.path # <<"profile", "company">>

(***************************************************************************)
(* C2                                                                      *)
(***************************************************************************)
WalkOps == TreeOps \cup {"getPath"}

\* the object schema a child value leads to, if any: itself, the element type
\* of an array, or what a lazy getter returns (an object or an array of objects)
Target(value) ==
  CASE value.kind = "object" -> {value.ref}
    [] value.kind = "array" /\ value.type.kind = "object" -> {value.type.ref}
    [] value.kind = "lazy" /\ value.getter.kind = "object" -> {value.getter.ref}
    [] value.kind = "lazy" /\ value.getter.kind = "array"
         /\ value.getter.type.kind = "object" -> {value.getter.type.ref}
    [] OTHER -> {}

Children(o) == UNION {Target(Shape(o)[i].value) : i \in 1..Len(Shape(o))}

RECURSIVE ReachableFrom(_, _)

\* the object schemas reachable from those of `from` in 1..n steps
ReachableFrom(from, n) ==
  IF n = 0 THEN {}
  ELSE LET next == UNION {Children(o) : o \in from} IN
       next \cup ReachableFrom(next, n - 1)

\* an object schema reachable from the root is reachable from itself
Cyclic ==
  \E o \in {Root} \cup ReachableFrom({Root}, Cardinality(ObjIds)) :
    o \in ReachableFrom({o}, Cardinality(ObjIds))

\* C2: on every schema graph with a cycle, each of getFilterable, getSortable,
\* getQueryable and getPath terminates and never descends again into an object
\* schema that is on the current recursion path; a walk that does descend
\* again recurses without end and ends in the engine's RangeError.
C2_CyclicWalksTerminate ==
  (Cyclic /\ op \in WalkOps) => result.raise # "RangeError"

(***************************************************************************)
(* C3                                                                      *)
(***************************************************************************)
RECURSIVE ObjectLevels(_, _, _)

\* the nesting levels getQueryable walks: the root, and every object reached
\* from it through plain object children; `at` is the keys leading there
ObjectLevels(o, at, fuel) ==
  {[at |-> at, obj |-> o]} \cup
  IF fuel = 0 THEN {}
  ELSE UNION { IF Shape(o)[i].value.kind = "object"
               THEN ObjectLevels(Shape(o)[i].value.ref,
                                 Append(at, Shape(o)[i].key), fuel - 1)
               ELSE {} : i \in 1..Len(Shape(o)) }

Levels == ObjectLevels(Root, << >>, StackLimit)

QueryableLeafValue(v) == v.kind = "leaf" /\ v.ext /\ isQueryable(v)

AliasOf(v) == IF META_KEYS.path \in DOMAIN v.desc THEN v.desc[META_KEYS.path] ELSE << >>

HasAlias(v) == Len(AliasOf(v)) > 0

HoldsTrue(tree, p) == [path |-> p, val |-> "true"] \in tree

HasKey(tree, p) == \E e \in tree : e.path = p

\* what C3 says of the queryable leaf v declared under key at level lv
AliasRecorded(tree, lv, key, v) ==
  IF HasAlias(v)
  THEN /\ \A j \in 1..Len(AliasOf(v)) : HoldsTrue(tree, Append(lv.at, AliasOf(v)[j]))
       /\ ~HasKey(tree, Append(lv.at, key))
  ELSE META_KEYS.path \notin DOMAIN v.desc => HoldsTrue(tree, Append(lv.at, key))

AllAliasesRecorded ==
  \A lv \in Levels : \A i \in 1..Len(Shape(lv.obj)) :
    LET e == Shape(lv.obj)[i] IN
    QueryableLeafValue(e.value) => AliasRecorded(result.value, lv, e.key, e.value)

NoAliasClash ==
  \A o \in ObjIds : \A i, k \in 1..Len(Shape(o)) :
    LET v == Shape(o)[i].value IN
    QueryableLeafValue(v) =>
      \A j \in 1..Len(AliasOf(v)) : AliasOf(v)[j] # Shape(o)[k].key

RECURSIVE PathLevels(_, _, _)

\* the nesting levels of the schema: the root and every object schema reached
\* through composite children, each object at most once on a way down
PathLevels(o, at, onPath) ==
  {[at |-> at, obj |-> o]} \cup
  UNION { UNION { PathLevels(t, Append(at, Shape(o)[i].key), onPath \cup {o}) :
                    t \in Target(Shape(o)[i].value) \ (onPath \cup {o}) } :
          i \in 1..Len(Shape(o)) }

\* paths[k] === v
MapsTo(paths, k, v) == \E i \in 1..Len(paths) : paths[i].k = k /\ paths[i].v = v

\* the physical path of the leaf v declared under key at the level `at`
PhysicalPath(at, key, v) ==
  IF v.ext /\ META_KEYS.path \in DOMAIN v.desc
  THEN at \o v.desc[META_KEYS.path]
  ELSE Append(at, key)

\* C10: the map getPath returns for the root has, for every leaf at any depth,
\* the leaf's full dotted path as a key, mapped to itself when the leaf has no
\* alias and to the alias-substituted path when it has one.
C10_FullPathIndexed ==
  (op = "getPath" /\ Returned) =>
    \A lv \in PathLevels(Root, << >>, {}) : \A i \in 1..Len(Shape(lv.obj)) :
      LET e == Shape(lv.obj)[i] IN
      e.value.kind = "leaf" =>
        MapsTo(result.value, Append(lv.at, e.key), PhysicalPath(lv.at, e.key, e.value))

(***************************************************************************)
(* C6, C9: validateOperatorInput                                           *)
(***************************************************************************)
\* the operand shapes of the vocabulary table
Conforms(name, v) ==
  CASE name \in {"eq", "ne"} ->
         v.kind \in {"string", "number", "boolean", "null", "date"}
    [] name \in {"gt", "gte", "lt", "lte"} -> v.kind \in {"number", "date", "string"}
    [] name \in {"in", "notIn", "or", "and"} -> v.kind = "array"
    [] name \in {"like", "notLike", "iLike", "notILike"} ->
         v.kind = "string" /\ \A i \in 1..Len(v.text) : v.text[i] # "%"
    [] name \in {"between", "notBetween"} -> v.kind = "array" /\ Len(v.items) = 2
    [] name = "is" -> v.kind \in {"null", "boolean"}
    [] name = "not" -> v.kind \in {"string", "number", "boolean", "null"}
    [] name \in {"startsWith", "endsWith", "substring"} -> v.kind = "string"
    [] OTHER -> FALSE

\* the tuple is [null, error]
IsFailure(tuple) == ~tuple.ok /\ tuple.err # "null"

\* C6: for every operator of the vocabulary and every operand,
\* validateOperatorInput returns [true, null] exactly when the operand has the
\* operator's shape, and [null, error] otherwise.
C6_AcceptsExactlyConforming ==
  (op = "validateOperatorInput" /\ operator \in Vocabulary) =>
    /\ result.raise = "none"
    /\ IF Conforms(operator, operand)
       THEN result.value = Success
       ELSE IsFailure(result.value)

\* a call of an operator of the like family on a string with a '%' returned
\* [null, error]
C6_Witness ==
  /\ op = "validateOperatorInput"
  /\ \/ operator = "like" /\ operand = Str(<<"a", "%">>) /\ IsFailure(result.value)
     \/ operator = "notILike" /\ operand = Str(<<"%", "a", "b">>) /\ IsFailure(result.value)

\* C9: called with a name outside the vocabulary, validateOperatorInput raises
\* the 'Unsupported operator' error and returns no tuple; called with a name of
\* the vocabulary it never raises.
C9_UnsupportedOperatorRaised ==
  op = "validateOperatorInput" =>
    IF operator \in Vocabulary
    THEN result.raise = "none"
    ELSE result.raise = "Unsupported operator"

(***************************************************************************)
(* C4, C5, C7, C8: validateOptions                                         *)
(***************************************************************************)
Entries == clientFilter.entries

FlatKeys == {nestedToDotObject(filterMap)[i].k : i \in 1..Len(nestedToDotObject(filterMap))}

\* the key is the name of an operator of the vocabulary
IsOperatorName(key) == Len(key) = 1 /\ key[1] \in Vocabulary

\* a key of the filter map that is no operator name
KnownField(key) == key \in FlatKeys /\ ~IsOperatorName(key)

IsMapping(v) == v.kind = "object"

BadKeys(v) == {v.entries[j].key : j \in {x \in 1..Len(v.entries) : ~IsOperatorName(v.entries[x].key)}}

\* C4: when a known field key holds a mapping with a key that is no operator
\* name, validateOptions never returns [true, null]; when that entry is the
\* whole payload it returns 'Invalid key' naming such a key.
C4_NestedBadKeyRejected ==
  op = "validateOptions" =>
    \A i \in 1..Len(Entries) :
      (KnownField(Entries[i].key) /\ IsMapping(Entries[i].value)
         /\ BadKeys(Entries[i].value) # {}) =>
        /\ ~(result.raise = "none" /\ result.value = Success)
        /\ Len(Entries) = 1 =>
             \E k \in BadKeys(Entries[i].value) : result = Returns(InvalidKey(k))

\* every key of the mapping is an operator name and some operand has not the
\* shape of its operator
OperandViolation(v) ==
  /\ IsMapping(v) /\ Len(v.entries) > 0 /\ BadKeys(v) = {}
  /\ \E j \in 1..Len(v.entries) : ~Conforms(v.entries[j].key[1], v.entries[j].value)

\* C5: when a known field key holds a mapping of operator names one of whose
\* operands violates its operator's shape, the result is a failure tuple.
C5_NestedOperandValidated ==
  op = "validateOptions" =>
    \A i \in 1..Len(Entries) :
      (KnownField(Entries[i].key) /\ OperandViolation(Entries[i].value)) =>
        (result.raise = "none" /\ IsFailure(result.value))

\* the payload's entries whose key is neither in the flattened filter map nor
\* an operator name
UnknownAt == {i \in 1..Len(Entries) :
                Entries[i].key \notin FlatKeys /\ ~IsOperatorName(Entries[i].key)}

FirstUnknown == CHOOSE i \in UnknownAt : \A j \in UnknownAt : i <= j

\* an entry before the i-th already ended the call
EarlierFailed(i) ==
  \E j \in 1..(i - 1) :
    OptionsEntry(Entries[j].key, Entries[j].value, nestedToDotObject(filterMap)) # Continue

\* C7: a payload with a key that is neither a key of the flattened filter map
\* nor an operator name gets [null, 'Invalid key: k'] for the first such key k,
\* unless an earlier key already failed.
C7_UnknownKeyRejected ==
  (op = "validateOptions" /\ UnknownAt # {} /\ ~EarlierFailed(FirstUnknown)) =>
    result = Returns(InvalidKey(Entries[FirstUnknown].key))

\* C8: validateOptions never raises: it returns [true, null] or [null, error].
C8_NeverRaises ==
  op = "validateOptions" =>
    /\ result.raise = "none"
    /\ result.value = Success \/ IsFailure(result.value)

(***************************************************************************)
(* C11                                                                     *)
(***************************************************************************)
\* the value has the capability the walk `o` looks for
Capable(o, v) ==
  /\ v.kind = "leaf" /\ v.ext
  /\ CASE o = "getFilterable" -> isFilterable(v)
       [] o = "getSortable" -> isSortable(v)
       [] o = "getQueryable" -> isQueryable(v) /\ META_KEYS.path \notin DOMAIN v.desc

\* the keys of the object schema t whose value is a leaf with the capability
CapableKeys(o, t) ==
  {Shape(t)[i].key : i \in {x \in 1..Len(Shape(t)) : Capable(o, Shape(t)[x].value)}}

\* C11: each of getFilterable, getSortable and getQueryable recurses into every
\* composite child of the root (a plain object, a lazy node resolving to an
\* object, an array of objects), so that the capable leaves of the child's
\* schema are recorded under the child's key; in particular getQueryable on
\* A, with A and B mutually lazy, holds B's queryable leaves under B's key.
C11_CompositeChildrenWalked ==
  (op \in TreeOps /\ Returned) =>
    \A i \in 1..Len(Shape(Root)) :
      LET e == Shape(Root)[i] IN
      \A t \in Target(e.value) \ {Root} :
        \A k \in CapableKeys(op, t) : HoldsTrue(result.value, <<e.key, k>>)

(***************************************************************************)
(* C12                                                                     *)
(***************************************************************************)
RECURSIVE QueryableOver(_, _, _)

\* the loop of getQueryable run over a list of entries
QueryableOver(entries, i, tree) ==
  IF i > Len(entries) THEN Ret(tree, {})
  ELSE LET r == QueryableEntry(entries[i].key, entries[i].value, tree, 1) IN
       IF r.raise # "none" THEN r
       ELSE QueryableOver(entries, i + 1, r.value)

IsArrayOrLazy(e) == e.value.kind \in {"array", "lazy"}

NotArrayOrLazy(e) == ~IsArrayOrLazy(e)

\* an array or lazy child that is not itself annotated queryable
IsPlainArrayOrLazy(e) == IsArrayOrLazy(e) /\ ~(e.value.ext /\ isQueryable(e.value))

NotPlainArrayOrLazy(e) == ~IsPlainArrayOrLazy(e)

\* the tree getQueryable yields for the object schema at level lv
TreeAt(lv) == IF lv.at = << >> THEN result.value ELSE getQueryable(lv.obj, 1).value

ThrowingKeys ==
  {Shape(Root)[i].key :
     i \in {x \in 1..Len(Shape(Root)) : Shape(Root)[x].value = Lazy(ThrowingGetter)}}

\* C14: no walk raises, whatever the children are (a lazy node whose getter
\* throws, an undefined value); getFilterable records nothing under the key of
\* a lazy child whose getter throws.
C14_WalkNeverRaises ==
  op \in WalkOps =>
    /\ result.raise = "none"
    /\ op = "getFilterable" => \A k \in ThrowingKeys : ~HasKey(result.value, <<k>>)

(***************************************************************************)
(* C15                                                                     *)
(***************************************************************************)
\* tree[key], for a key that holds a nested tree (empty when the key is absent)
Subtree(tree, key) ==
  {[path |-> Tail(e.path), val |-> e.val] :
     e \in {x \in tree : Len(x.path) > 1 /\ x.path[1] = key}}

HasPathKey(paths, k) == \E i \in 1..Len(paths) : paths[i].k = k

\* what a call of getPath on the schema t alone, reached under key, yields
AlonePaths(t, key) == getPath(t, <<key>>, {}, 1).value

\* C15: in an acyclic schema, what getFilterable and getPath report under the
\* key of a composite child of the root is what the child's schema yields by
\* itself, whichever other children were walked before it.
C15_ChildTreeIndependent ==
  (~Cyclic /\ Returned) =>
    \A i \in 1..Len(Shape(Root)) :
      LET e == Shape(Root)[i] IN
      \A t \in Target(e.value) :
        /\ op = "getFilterable" =>
             Subtree(result.value, e.key) = getFilterable(t, {}, 1).value
        /\ op = "getPath" =>
             \A j \in 1..Len(AlonePaths(t, e.key)) :
               HasPathKey(result.value, ShortKey(e.key, AlonePaths(t, e.key)[j].k))

(***************************************************************************)
(* C13                                                                     *)
(***************************************************************************)
AnnotationNames ==
  {META_KEYS.FILTERABLE, META_KEYS.SORTABLE, META_KEYS.QUERYABLE, META_KEYS.path}

\* the value a call sets: its argument, or the documented default
\* (true, the empty path) when the argument is left out
ValueSet(c) ==
  IF c.arg.given THEN c.arg.value
  ELSE IF c.key = META_KEYS.path THEN << >> ELSE TRUE

\* the calls, oldest first, that led from the untouched node to node n
RECURSIVE Chain(_)
Chain(n) == IF n = 1 THEN << >> ELSE Append(Chain(calls[n - 1].recv), calls[n - 1])

\* the position in the chain of the last call that set key (0: never set)
LastSet(chain, key) ==
  LET S == {i \in 1..Len(chain) : chain[i].key = key}
  IN IF S = {} THEN 0 ELSE CHOOSE i \in S : \A j \in S : j <= i

Predicate(node, key) ==
  CASE key = META_KEYS.FILTERABLE -> isFilterable(node)
    [] key = META_KEYS.SORTABLE -> isSortable(node)
    [] key = META_KEYS.QUERYABLE -> isQueryable(node)
    [] key = META_KEYS.path -> isPath(node)

\* the annotation set holds, and the predicate answers, what the chain
\* last set: a boolean capability is its last value, a path is present
ReflectsChain(n) ==
  \A key \in AnnotationNames :
    LET chain == Chain(n)
        i == LastSet(chain, key)
    IN IF i = 0
       THEN key \notin DOMAIN nodes[n].desc /\ ~Predicate(nodes[n], key)
       ELSE /\ key \in DOMAIN nodes[n].desc
            /\ nodes[n].desc[key] = ValueSet(chain[i])
            /\ Predicate(nodes[n], key) =
                 (IF key = META_KEYS.path THEN TRUE ELSE ValueSet(chain[i]) = TRUE)

\* one call: a new node, the receiver's set with the one key set, and every
\* node that existed (the receiver among them) as it was
MergesIntoNewNode ==
  /\ Len(nodes') = Len(nodes) + 1
  /\ \A i \in 1..Len(nodes) : nodes'[i] = nodes[i]
  /\ LET c == calls'[Len(calls')]
         old == nodes[c.recv].desc
         new == nodes'[Len(nodes')].desc
     IN /\ DOMAIN new = DOMAIN old \cup {c.key}
        /\ new[c.key] = ValueSet(c)
        /\ \A k \in DOMAIN old \ {c.key} : new[k] = old[k]

\* C13: each annotation call returns a new node whose annotation set is the
\* receiver's with that one key set to the argument, all other keys kept, and
\* leaves the receiver's set unchanged; after any chain of calls the
\* predicates reflect the last value set for their key and are false for
\* keys never set.
C13_AnnotationMergesIntoNewNode ==
  /\ [](\A n \in 1..Len(nodes) : ReflectsChain(n))
  /\ [][MergesIntoNewNode]_vars

\* a node reached by a chain that set filterable more than once, last to
\* false, and kept another capability set earlier in the chain
C13_Witness ==
  \E n \in 1..Len(nodes) :
    LET chain == Chain(n) IN
    /\ Cardinality({i \in 1..Len(chain) : chain[i].key = META_KEYS.FILTERABLE}) >= 2
    /\ ~isFilterable(nodes[n])
    /\ isSortable(nodes[n])
    /\ LastSet(chain, META_KEYS.SORTABLE) < LastSet(chain, META_KEYS.FILTERABLE)

====
